---- MODULE Spec2Model ----
(***************************************************************************)
(* pytest-pw-reporter: step instrumentation of Playwright classes          *)
(* (instrumentation.py), the JSON event reporter (reporter.py) and the     *)
(* pytest hook bridge (plugin.py).                                         *)
(*                                                                         *)
(* Modelling conventions                                                   *)
(*  - A Python value is a record [type, text, ...]: type is the Python     *)
(*    type's name and text is str(value).  None is the value NoneV; where  *)
(*    a field holds "a string or None" the string "None" stands for None   *)
(*    (no message of the model is the four letters None).                  *)
(*  - A callable stored on a class is [depth, marked]: depth counts the    *)
(*    wrapper closures around the library's original function, marked is   *)
(*    the _pw_reporter_wrapped attribute of the outermost one.             *)
(*  - datetime.now() and time.time() read the variable clock; the clock    *)
(*    moves forward by one tick at each datetime.now().  isoformat()       *)
(*    preserves order: a timestamp is represented by the tick it denotes.  *)
(*  - The output channel accepts every write (sys.stdout is open).         *)
(***************************************************************************)
EXTENDS Integers, Sequences, FiniteSets, TLC

VARIABLES
    env,        \* what the running environment offers: importable types, operations present
    patched,    \* instrumentation._patched
    attr,       \* attr[cls][name]: the callable bound to `name` on class cls
    events,     \* reporter.events, the in-memory history
    output,     \* what has been written to reporter.output, write by write
    clock,      \* the wall clock
    pc,         \* pc[f]: where flow f stands
    frames,     \* frames[f]: the wrapper activations of flow f, innermost last
    cur,        \* cur[f]: the operation flow f runs (or ran last), with what the caller saw
    log,        \* log[f]: the log_event activation of flow f
    todo,       \* todo[f]: the log_event calls the running hook has still to make
    runner,     \* the test runner's place in its hook protocol
    origin,     \* origin[i]: the operation that emitted events[i] (history variable)
    logCalls,   \* the log_event calls in the order they were made (history variable)
    nops,       \* operations started so far
    ncalls,     \* wrapped-operation calls started so far
    repatched,  \* a patch function was run again, after or during the installer's first run
    titleIn,    \* the title rule and argument list under evaluation
    titleOut,   \* what the title rule gave for titleIn
    inst        \* inst[f]: the patch_playwright activation of flow f

vars == <<env, patched, attr, events, output, clock, pc, frames, cur, log, todo,
          runner, origin, logCalls, nops, ncalls, repatched, titleIn, titleOut, inst>>

----------------------------------------------------------------------------
(* Bounds *)

\* wrapped-operation calls the test code of one session makes
MaxCalls == 2
\* wrapped-operation calls two concurrent flows make together
MaxConcCalls == 2
\* positional arguments, after self, of a call handed to a title rule
MaxTitleArgs == 3
\* runs of the installer in the concurrent-installer runs
MaxInstalls == 3
\* times wrap is applied by hand on top of one callable
MaxDepth == 2

Flows == {"main", "worker"}
Variants == {"async", "sync"}
Types == {"Page", "Locator", "LocatorAssertions"}
Classes == Variants \X Types

----------------------------------------------------------------------------
(* Python values *)

None == "None"
NoneV == [type |-> "NoneType", text |-> "None"]
StrV(s) == [type |-> "str", text |-> s]
IntV(n) == [type |-> "int", text |-> ToString(n)]

\* str(v), as an f-string's {v} formats it
Str(v) == v.text
\* repr(v), as an f-string's {v!r} formats it
Repr(v) == IF v.type = "str" THEN "'" \o v.text \o "'" ELSE v.text

NoExc == [id |-> "none", type |-> "none", msg |-> "", isException |-> FALSE, from |-> "none"]
\* the TypeError Python raises when a call does not fit a lambda's parameters
TypeError(why) ==
    [id |-> "te:" \o why, type |-> "TypeError", msg |-> why, isException |-> TRUE,
     from |-> "title_fn"]

KwNames(kw) == {kw[i].name : i \in DOMAIN kw}
KwGet(kw, n) == (CHOOSE i \in DOMAIN kw : kw[i].name = n)
IndexOf(s, x) == CHOOSE i \in DOMAIN s : s[i] = x

----------------------------------------------------------------------------
(* The title rules: the lambdas of the three patch functions.              *)
(* params are the positional parameters after self, defaults the ones     *)
(* with a default value, fmt the f-string piece by piece.                  *)

L(s) == [k |-> "lit", v |-> s]
S(p) == [k |-> "str", v |-> p]
R(p) == [k |-> "repr", v |-> p]
DescLocator == [k |-> "desc_locator", v |-> "self"]
DescAssert == [k |-> "desc_assert", v |-> "self"]

NoDefaults == [p \in {} |-> NoneV]
Rule(name, params, fmt) ==
    [name |-> name, params |-> params, defaults |-> NoDefaults, fmt |-> fmt]

\* lambda self, **kw: "page.<name>()"
PageNoArg(name) == Rule(name, <<>>, <<L("page." \o name \o "()")>>)
\* lambda self, <p>, **kw: f"page.<name>({<p>})"
PageOne(name, p) == Rule(name, <<p>>, <<L("page." \o name \o "("), S(p), L(")")>>)
\* lambda self, selector, <p>, **kw: f"page.<name>({selector}, {<p>!r})"
PageSelRepr(name, p) ==
    Rule(name, <<"selector", p>>,
         <<L("page." \o name \o "("), S("selector"), L(", "), R(p), L(")")>>)

PageNavigation == <<
    PageOne("goto", "url"),
    PageNoArg("reload"),
    PageNoArg("go_back"),
    PageNoArg("go_forward") >>

PageAction == <<
    PageOne("click", "selector"),
    PageOne("dblclick", "selector"),
    PageSelRepr("fill", "value"),
    PageSelRepr("type", "text"),
    Rule("press", <<"selector", "key">>,
         <<L("page.press("), S("selector"), L(", "), S("key"), L(")")>>),
    PageOne("check", "selector"),
    PageOne("uncheck", "selector"),
    PageOne("select_option", "selector"),
    PageOne("hover", "selector"),
    PageOne("focus", "selector"),
    Rule("drag_and_drop", <<"source", "target">>,
         <<L("page.drag_and_drop("), S("source"), L(", "), S("target"), L(")")>>),
    PageNoArg("screenshot"),
    PageNoArg("pdf"),
    Rule("set_input_files", <<"selector", "files">>,
         <<L("page.set_input_files("), S("selector"), L(", ...)")>>) >>

PageWait == <<
    PageOne("wait_for_selector", "selector"),
    [name |-> "wait_for_load_state", params |-> <<"state">>,
     defaults |-> [p \in {"state"} |-> StrV("load")],
     fmt |-> <<L("page.wait_for_load_state("), S("state"), L(")")>>],
    PageOne("wait_for_url", "url"),
    PageOne("wait_for_timeout", "timeout"),
    Rule("wait_for_function", <<"expression">>, <<L("page.wait_for_function(...)")>>) >>

\* lambda self, **kw: f"locator({get_locator_desc(self)}).<name>()"
LocNoArg(name) == Rule(name, <<>>, <<L("locator("), DescLocator, L(")." \o name \o "()")>>)
\* lambda self, <p>, **kw: f"locator({get_locator_desc(self)}).<name>({<p>!r})"
LocRepr(name, p) ==
    Rule(name, <<p>>,
         <<L("locator("), DescLocator, L(")." \o name \o "("), R(p), L(")")>>)

LocatorAction == <<
    LocNoArg("click"),
    LocNoArg("dblclick"),
    LocRepr("fill", "value"),
    LocRepr("type", "text"),
    Rule("press", <<"key">>,
         <<L("locator("), DescLocator, L(").press("), S("key"), L(")")>>),
    LocNoArg("check"),
    LocNoArg("uncheck"),
    LocNoArg("select_option"),
    LocNoArg("hover"),
    LocNoArg("focus"),
    LocNoArg("scroll_into_view_if_needed"),
    LocNoArg("screenshot"),
    Rule("set_input_files", <<"files">>,
         <<L("locator("), DescLocator, L(").set_input_files(...)")>>),
    LocNoArg("select_text"),
    LocNoArg("clear") >>

LocatorWait == << LocNoArg("wait_for") >>

\* lambda self, **kw: f"expect({get_locator_desc(self)}).<name>()"
ExpNoArg(name) == Rule(name, <<>>, <<L("expect("), DescAssert, L(")." \o name \o "()")>>)
\* lambda self, <p>, **kw: f"expect({get_locator_desc(self)}).<name>({<p>!r})"
ExpRepr(name, p) ==
    Rule(name, <<p>>,
         <<L("expect("), DescAssert, L(")." \o name \o "("), R(p), L(")")>>)
\* lambda self, name, value, **kw: f"expect(...).<name>({name!r}, {value!r})"
ExpNameValue(name) ==
    Rule(name, <<"name", "value">>,
         <<L("expect("), DescAssert, L(")." \o name \o "("), R("name"), L(", "),
           R("value"), L(")")>>)

AssertionMethods == <<
    ExpNoArg("to_be_visible"),
    ExpNoArg("to_be_hidden"),
    ExpNoArg("to_be_enabled"),
    ExpNoArg("to_be_disabled"),
    ExpNoArg("to_be_checked"),
    ExpNoArg("to_be_focused"),
    ExpNoArg("to_be_editable"),
    ExpNoArg("to_be_empty"),
    ExpNoArg("to_be_attached"),
    ExpNoArg("to_be_in_viewport"),
    ExpRepr("to_have_text", "expected"),
    ExpRepr("to_contain_text", "expected"),
    ExpRepr("to_have_value", "value"),
    Rule("to_have_values", <<"values">>,
         <<L("expect("), DescAssert, L(").to_have_values(...)")>>),
    ExpNameValue("to_have_attribute"),
    ExpRepr("to_have_class", "expected"),
    Rule("to_have_count", <<"count">>,
         <<L("expect("), DescAssert, L(").to_have_count("), S("count"), L(")")>>),
    ExpNameValue("to_have_css"),
    ExpRepr("to_have_id", "id"),
    Rule("to_have_js_property", <<"name", "value">>,
         <<L("expect("), DescAssert, L(").to_have_js_property("), R("name"),
           L(", ...)")>>),
    ExpRepr("to_have_role", "role"),
    ExpRepr("to_have_accessible_name", "name"),
    ExpRepr("to_have_accessible_description", "description") >>

\* the (category, table) groups each patch function walks, in its order
Groups(type) ==
    CASE type = "Page" ->
           << [category |-> "navigation", methods |-> PageNavigation],
              [category |-> "action", methods |-> PageAction],
              [category |-> "wait", methods |-> PageWait] >>
      [] type = "Locator" ->
           << [category |-> "action", methods |-> LocatorAction],
              [category |-> "wait", methods |-> LocatorWait] >>
      [] type = "LocatorAssertions" ->
           << [category |-> "assertion", methods |-> AssertionMethods] >>

\* the three tables, by target type
Tables ==
    [Page |-> Groups("Page"), Locator |-> Groups("Locator"),
     LocatorAssertions |-> Groups("LocatorAssertions")]

EntriesIn(groups) ==
    UNION {{[category |-> groups[g].category, rule |-> groups[g].methods[i]] :
                i \in DOMAIN groups[g].methods} : g \in DOMAIN groups}
\* the (category, rule) entries of each type's tables
EntrySets ==
    [Page |-> EntriesIn(Tables.Page), Locator |-> EntriesIn(Tables.Locator),
     LocatorAssertions |-> EntriesIn(Tables.LocatorAssertions)]
NameSets ==
    [Page |-> {e.rule.name : e \in EntrySets.Page},
     Locator |-> {e.rule.name : e \in EntrySets.Locator},
     LocatorAssertions |-> {e.rule.name : e \in EntrySets.LocatorAssertions}]

Entries(type) == EntrySets[type]
Names(type) == NameSets[type]
EntryOf(type, name) == CHOOSE e \in Entries(type) : e.rule.name = name

----------------------------------------------------------------------------
(* Calling a title rule *)

\* patch_locator_class.get_locator_desc: str(locator)
LocatorDesc(self) == Str(self)

AssertProbe == <<"_actual_locator", "_locator", "actual">>
\* patch_assertions_class.get_locator_desc: the first of the three attributes
\* of the implementation object that is present and not None, else "locator"
AssertDesc(self) ==
    LET hits == {i \in DOMAIN AssertProbe :
                    /\ AssertProbe[i] \in DOMAIN self.impl
                    /\ self.impl[AssertProbe[i]].type # "NoneType"}
    IN IF hits = {} THEN "locator"
       ELSE LET i == CHOOSE h \in hits : \A g \in hits : h <= g
            IN Str(self.impl[AssertProbe[i]])

\* Python's binding of a call's arguments to `lambda self, p1, .., pn, **kw`
BindError(rule, args) ==
    LET names == <<"self">> \o rule.params
        n == Len(args.pos)
    IN IF n > Len(names) THEN "too many positional arguments"
       ELSE IF \E i \in 1..n : names[i] \in KwNames(args.kw)
            THEN "multiple values for argument"
       ELSE IF \E i \in (n+1)..Len(names) :
                 names[i] \notin KwNames(args.kw) /\ names[i] \notin DOMAIN rule.defaults
            THEN "missing required positional argument"
       ELSE "ok"

Bound(rule, args, p) ==
    LET names == <<"self">> \o rule.params
        i == IndexOf(names, p)
    IN IF i <= Len(args.pos) THEN args.pos[i]
       ELSE IF p \in KwNames(args.kw) THEN args.kw[KwGet(args.kw, p)].value
       ELSE rule.defaults[p]

Piece(rule, args, piece) ==
    CASE piece.k = "lit" -> piece.v
      [] piece.k = "str" -> Str(Bound(rule, args, piece.v))
      [] piece.k = "repr" -> Repr(Bound(rule, args, piece.v))
      [] piece.k = "desc_locator" -> LocatorDesc(Bound(rule, args, "self"))
      [] piece.k = "desc_assert" -> AssertDesc(Bound(rule, args, "self"))

RECURSIVE Format(_, _, _, _)
Format(rule, args, fmt, i) ==
    IF i > Len(fmt) THEN ""
    ELSE Piece(rule, args, fmt[i]) \o Format(rule, args, fmt, i + 1)

\* title_fn(*args, **kwargs): the title, or the TypeError of a call that does
\* not fit the lambda
TitleFn(rule, args) ==
    LET why == BindError(rule, args)
    IN IF why = "ok"
       THEN [ok |-> TRUE, title |-> Format(rule, args, rule.fmt, 1), exc |-> NoExc]
       ELSE [ok |-> FALSE, title |-> "", exc |-> TypeError(why)]

----------------------------------------------------------------------------
(* The running environment and the callables on the target classes *)

TypeOf(cls) == cls[2]
VariantOf(cls) == cls[1]

\* An environment: the target types each API lets import, and the operations
\* the installed library version defines on each type.
\* The library of the runs: both APIs, with these operations on the types.
LibOps ==
    [Page |-> {"goto", "click", "select_option"},
     Locator |-> {"click", "fill"},
     LocatorAssertions |-> {"to_be_visible", "to_have_text"}]
BothApisEnv == [types |-> [v \in Variants |-> Types], present |-> LibOps]
\* only the blocking API can be imported
SyncOnlyEnv == [types |-> [v \in Variants |-> IF v = "sync" THEN Types ELSE {}],
                present |-> LibOps]
\* playwright is not installed
NoLibEnv == [types |-> [v \in Variants |-> {}], present |-> LibOps]

\* the function the library defines
Original == [depth |-> 0, marked |-> FALSE, conv |-> "none"]

\* the class attributes before any patching: the catalogue names the class has
InitAttr(e) ==
    [cls \in Classes |->
        [n \in IF TypeOf(cls) \in e.types[VariantOf(cls)]
               THEN Names(TypeOf(cls)) \cap e.present[TypeOf(cls)]
               ELSE {} |-> Original]]

\* wrap_async_method: a coroutine wrapper around method, marked as wrapped
wrap_async_method(method) == [depth |-> method.depth + 1, marked |-> TRUE, conv |-> "async"]
\* wrap_sync_method: a wrapper around method, marked as wrapped
wrap_sync_method(method) == [depth |-> method.depth + 1, marked |-> TRUE, conv |-> "sync"]

never_wrapped(method) == FALSE
\* is_wrapped: getattr(method, '_pw_reporter_wrapped', False)
is_wrapped(method) == method.marked

\* the loops of patch_page_class / patch_locator_class / patch_assertions_class:
\* every table name the class has and that is not wrapped yet is replaced by
\* its wrapper.  A name occurs once in a type's tables, so the loops' order
\* does not show in the result.
PatchClass(a, cls, is_async) ==
    [c \in DOMAIN a |->
        IF c = cls
        THEN [n \in DOMAIN a[c] |->
                IF n \in Names(TypeOf(c)) /\ ~is_wrapped(a[c][n])
                THEN IF is_async THEN wrap_async_method(a[c][n])
                     ELSE wrap_sync_method(a[c][n])
                ELSE a[c][n]]
        ELSE a[c]]

patch_page_class(a, cls, is_async) == PatchClass(a, cls, is_async)
patch_locator_class(a, cls, is_async) == PatchClass(a, cls, is_async)
patch_assertions_class(a, cls, is_async) == PatchClass(a, cls, is_async)

\* one try block of patch_playwright: the three imports, then the three patch
\* calls; an ImportError of any of the imports skips the block
PatchVariant(a, e, v) ==
    IF Types \subseteq e.types[v]
    THEN patch_assertions_class(
             patch_locator_class(
                 patch_page_class(a, <<v, "Page">>, v = "async"),
                 <<v, "Locator">>, v = "async"),
             <<v, "LocatorAssertions">>, v = "async")
    ELSE a

\* patch_playwright: <<attr, _patched>> after the call
patch_playwright(a, e, p) ==
    IF p THEN <<a, p>>
    ELSE <<PatchVariant(PatchVariant(a, e, "async"), e, "sync"), TRUE>>

----------------------------------------------------------------------------
(* The reporter *)

HistoryPrepend(history, payload) == <<payload>> \o history
\* self.events.append(payload)
HistoryAppend(history, payload) == Append(history, payload)

\* the types json.dumps writes without help
JsonNative == {"str", "int", "NoneType"}
\* A payload made by a caller other than the wrappers and the hooks carries
\* the caller's Python value under the key "value".
\* json.dumps raises on a container that holds itself and on a dict key that
\* is no str, int, float, bool or None; default=str is asked for every other
\* value dumps cannot write, and what str() raises leaves dumps.
JsonRaises(payload) ==
    IF "value" \notin DOMAIN payload THEN NoExc
    ELSE CASE payload.value.type = "circular_dict" ->
                [id |-> "j1", type |-> "ValueError", msg |-> "Circular reference detected",
                 isException |-> TRUE, from |-> "json.dumps"]
           [] payload.value.type = "tuple_key_dict" ->
                [id |-> "j2", type |-> "TypeError",
                 msg |-> "keys must be str, int, float, bool or None, not tuple",
                 isException |-> TRUE, from |-> "json.dumps"]
           [] payload.value.type = "str_raises_object" ->
                [id |-> "j3", type |-> "RuntimeError", msg |-> "__str__ failed",
                 isException |-> TRUE, from |-> "json.dumps"]
           [] OTHER -> NoExc
\* default=str: a value dumps cannot write is written as the string str(value)
Default(payload) ==
    IF "value" \in DOMAIN payload /\ payload.value.type \notin JsonNative
    THEN [k \in DOMAIN payload |->
             IF k = "value" THEN [type |-> "str", text |-> payload.value.text]
             ELSE payload[k]]
    ELSE payload
\* json.dumps(payload, indent=2, default=str): the text that denotes payload
\* (on JSON-native values dumps is injective: a text is represented by the
\* value it denotes)
JsonDumps(payload) == [chunk |-> "json", rec |-> Default(payload)]
\* the end="\n" that print writes after the text
Newline == [chunk |-> "newline", rec |-> <<>>]

PayloadWithoutData(event, now, data) == [event |-> event, timestamp |-> now]
\* log_event, lines 18-20: the record made of event, timestamp and data
Payload(event, now, data) ==
    LET base == [event |-> event, timestamp |-> now]
    IN IF DOMAIN data # {} THEN data @@ base ELSE base

on_step_begin_as_end(title, category) ==
    [event |-> "onStepEnd",
     data |-> [step |-> [title |-> title, category |-> category]]]
\* on_step_begin's log_event arguments
on_step_begin(title, category) ==
    [event |-> "onStepBegin",
     data |-> [step |-> [title |-> title, category |-> category]]]

\* on_step_end's log_event arguments
on_step_end(title, category, duration_ms, error) ==
    [event |-> "onStepEnd",
     data |-> [step |-> [title |-> title, category |-> category,
                         duration |-> duration_ms, error |-> error]]]

NoLog == [event |-> "", data |-> <<>>, ret |-> "", payload |-> <<>>]

\* a flow calls reporter.log_event(event, data) and will go on at ret
CallLog(f, call, ret) ==
    /\ log' = [log EXCEPT ![f] = [event |-> call.event, data |-> call.data,
                                  ret |-> ret, payload |-> <<>>]]
    /\ pc' = [pc EXCEPT ![f] = "log_stamp"]
    /\ logCalls' = Append(logCalls, [event |-> call.event, data |-> call.data])

\* log_event: payload = {"event": .., "timestamp": datetime.now().isoformat()}; update(data)
LogStamp(f) ==
    /\ pc[f] = "log_stamp"
    /\ log' = [log EXCEPT ![f].payload = Payload(log[f].event, clock, log[f].data)]
    /\ clock' = clock + 1
    /\ pc' = [pc EXCEPT ![f] = "log_append"]
    /\ UNCHANGED <<env, patched, attr, events, output, frames, cur, todo, runner,
                   origin, logCalls, nops, ncalls, repatched, titleIn, titleOut, inst>>

\* log_event: self.events.append(payload)
LogAppend(f) ==
    /\ pc[f] = "log_append"
    /\ events' = HistoryAppend(events, log[f].payload)
    /\ origin' = HistoryAppend(origin, [op |-> cur[f].id, flow |-> f])
    /\ pc' = [pc EXCEPT ![f] = "log_write"]
    /\ UNCHANGED <<env, patched, attr, output, clock, frames, cur, log, todo, runner,
                   logCalls, nops, ncalls, repatched, titleIn, titleOut, inst>>

\* log_event: print(json.dumps(..), file=self.output): dumps, then the write
\* of the text; what dumps raises leaves log_event before anything is written
LogWrite(f) ==
    /\ pc[f] = "log_write"
    /\ IF JsonRaises(log[f].payload) = NoExc
       THEN /\ output' = Append(output, JsonDumps(log[f].payload))
            /\ pc' = [pc EXCEPT ![f] = "log_end"]
            /\ UNCHANGED cur
       ELSE /\ cur' = [cur EXCEPT ![f].exc = JsonRaises(log[f].payload)]
            /\ pc' = [pc EXCEPT ![f] = "log_raised"]
            /\ UNCHANGED output
    /\ UNCHANGED <<env, patched, attr, events, clock, frames, log, todo, runner,
                   origin, logCalls, nops, ncalls, repatched, titleIn, titleOut, inst>>

\* log_event: print's write of the line end, and the return to the caller
LogEnd(f) ==
    /\ pc[f] = "log_end"
    /\ output' = Append(output, Newline)
    /\ pc' = [pc EXCEPT ![f] = log[f].ret]
    /\ log' = [log EXCEPT ![f] = NoLog]
    /\ UNCHANGED <<env, patched, attr, events, clock, frames, cur, todo, runner,
                   origin, logCalls, nops, ncalls, repatched, titleIn, titleOut, inst>>

----------------------------------------------------------------------------
(* The wrapper closures of wrap_sync_method / wrap_async_method *)

NoArgs == [pos |-> <<>>, kw |-> <<>>]
NoOutcome == [kind |-> "none", value |-> "", exc |-> NoExc]
Returns(v) == [kind |-> "return", value |-> v, exc |-> NoExc]
Raises(e) == [kind |-> "raise", value |-> "", exc |-> e]

NoOp ==
    [id |-> 0, kind |-> "none", cls |-> <<"", "">>, name |-> "", args |-> NoArgs,
     callable |-> Original, level |-> 0, invoked |-> 0, passed |-> NoArgs,
     outcome |-> NoOutcome, exc |-> NoExc, seen |-> NoOutcome, done |-> FALSE,
     hook |-> "", input |-> <<>>]

\* no patch_playwright activation
NoInst == [block |-> "", work |-> <<>>, original |-> Original]

\* what the library's own function may do when called: return a value, raise
\* an Exception, or be interrupted by a BaseException that is no Exception
\* (asyncio.CancelledError at the await, KeyboardInterrupt in a blocking call)
Outcomes(cls) ==
    { Returns("result"),
      Raises([id |-> "e1", type |-> "TimeoutError", msg |-> "not found",
              isException |-> TRUE, from |-> "operation"]),
      Raises([id |-> "b1",
              type |-> IF VariantOf(cls) = "async" THEN "CancelledError"
                       ELSE "KeyboardInterrupt",
              msg |-> "", isException |-> FALSE, from |-> "operation"]) }

\* the caller calls cls.name(*args, **kwargs) on an instance
Invoke(f, site) ==
    /\ pc[f] = "idle"
    /\ site.name \in DOMAIN attr[site.cls]
    /\ cur' = [cur EXCEPT ![f] =
                 [NoOp EXCEPT !.id = nops + 1, !.kind = "call", !.cls = site.cls,
                              !.name = site.name, !.args = site.args,
                              !.callable = attr[site.cls][site.name],
                              !.level = attr[site.cls][site.name].depth]]
    /\ nops' = nops + 1
    /\ ncalls' = ncalls + 1
    /\ pc' = [pc EXCEPT ![f] = "enter"]
    /\ UNCHANGED <<env, patched, attr, events, output, clock, frames, log, todo,
                   runner, origin, logCalls, repatched, titleIn, titleOut, inst>>

\* error = None; except Exception as e: error = str(e)
StepError(exc) == IF exc # NoExc /\ exc.isException THEN exc.msg ELSE None

\* wrapper, lines 22-25 (47-50): title, start_time, reporter.on_step_begin.
\* A title rule that raises leaves the wrapper before anything is emitted.
WrapperEnter(f) ==
    /\ pc[f] = "enter"
    /\ cur[f].level > 0
    /\ LET entry == EntryOf(TypeOf(cur[f].cls), cur[f].name)
           t == TitleFn(entry.rule, cur[f].args)
       IN IF t.ok
          THEN /\ frames' = [frames EXCEPT ![f] =
                               Append(@, [title |-> t.title, category |-> entry.category,
                                          start_time |-> clock])]
               /\ cur' = [cur EXCEPT ![f].level = @ - 1]
               /\ CallLog(f, on_step_begin(t.title, entry.category), "enter")
          ELSE /\ cur' = [cur EXCEPT ![f].exc = t.exc]
               /\ pc' = [pc EXCEPT ![f] = "unwind"]
               /\ UNCHANGED <<frames, log, logCalls, inst>>
    /\ UNCHANGED <<env, patched, attr, events, output, clock, todo, runner, origin,
                   nops, ncalls, repatched, titleIn, titleOut, inst>>

\* wrapper, line 29 (54): result = [await] method(*args, **kwargs)
CallMethod(f, out) ==
    /\ pc[f] = "enter"
    /\ cur[f].level = 0
    /\ cur' = [cur EXCEPT ![f].invoked = @ + 1, ![f].passed = cur[f].args,
                          ![f].outcome = out, ![f].exc = out.exc]
    /\ pc' = [pc EXCEPT ![f] = "unwind"]
    /\ UNCHANGED <<env, patched, attr, events, output, clock, frames, log, todo,
                   runner, origin, logCalls, nops, ncalls, repatched, titleIn, titleOut, inst>>

\* wrapper, lines 31-36 (56-61): the except clause and the finally block
WrapperExit(f) ==
    /\ pc[f] = "unwind"
    /\ frames[f] # <<>>
    /\ LET fr == frames[f][Len(frames[f])]
           duration_ms == (clock - fr.start_time) * 1000
       IN /\ CallLog(f, on_step_end(fr.title, fr.category, duration_ms,
                                    StepError(cur[f].exc)), "unwind")
          /\ frames' = [frames EXCEPT ![f] = SubSeq(@, 1, Len(@) - 1)]
    /\ UNCHANGED <<env, patched, attr, events, output, clock, cur, todo, runner, origin,
                   nops, ncalls, repatched, titleIn, titleOut, inst>>

ReturnsNone(c) == IF c.exc # NoExc THEN Raises(c.exc) ELSE Returns(None)
\* what leaves the outermost wrapper: `return result`, or the exception in
\* flight (the bare `raise` re-raises the object that was caught)
CallerSees(c) == IF c.exc # NoExc THEN Raises(c.exc) ELSE Returns(c.outcome.value)

\* the call returns to the caller
Return(f) ==
    /\ pc[f] = "unwind"
    /\ frames[f] = <<>>
    /\ cur' = [cur EXCEPT ![f].seen = CallerSees(cur[f]), ![f].done = TRUE]
    /\ pc' = [pc EXCEPT ![f] = "idle"]
    /\ UNCHANGED <<env, patched, attr, events, output, clock, frames, log, todo,
                   runner, origin, logCalls, nops, ncalls, repatched, titleIn, titleOut, inst>>

----------------------------------------------------------------------------
(* The pytest hooks of plugin.py: the log_event calls each makes, in order *)

LogCall(event, data) == [event |-> event, data |-> data]

\* Python truth of "a string or None"
Truthy(x) == x \notin {None, ""}

pytest_sessionstart(session) ==
    << LogCall("onBegin", [rootdir |-> session.rootdir, args |-> session.args]) >>

pytest_sessionfinish(session, exitstatus) ==
    << LogCall("onEnd", [exitstatus |-> exitstatus,
                         testsfailed |-> session.testsfailed,
                         testscollected |-> session.testscollected]) >>

pytest_runtest_logstart(nodeid, location) ==
    << LogCall("onTestBegin",
               [test |-> [id |-> nodeid,
                          location |-> [file |-> location[1], line |-> location[2],
                                        name |-> location[3]]]]) >>

logreport_every_phase(report) ==
    << LogCall("onTestEnd",
               [test |-> [id |-> report.nodeid, outcome |-> report.outcome,
                          duration |-> report.duration],
                result |-> [status |-> report.outcome,
                            duration |-> report.duration]]) >>
    \o IF report.failed
       THEN << LogCall("onError",
                       [error |-> IF Truthy(report.longrepr) THEN report.longrepr
                                  ELSE None]) >>
       ELSE << >>
logreport_error_every_phase(report) ==
    (IF report.when = "call"
     THEN << LogCall("onTestEnd",
                     [test |-> [id |-> report.nodeid, outcome |-> report.outcome,
                                duration |-> report.duration],
                      result |-> [status |-> report.outcome,
                                  duration |-> report.duration]]) >>
     ELSE << >>)
    \o IF report.failed
       THEN << LogCall("onError",
                       [error |-> IF Truthy(report.longrepr) THEN report.longrepr
                                  ELSE None]) >>
       ELSE << >>
\* if report.when == "call": log onTestEnd; if report.failed: log onError
\* (str(report.longrepr) if report.longrepr else None)
pytest_runtest_logreport(report) ==
    IF report.when = "call"
    THEN << LogCall("onTestEnd",
                    [test |-> [id |-> report.nodeid, outcome |-> report.outcome,
                               duration |-> report.duration],
                     result |-> [status |-> report.outcome,
                                 duration |-> report.duration]]) >>
         \o IF report.failed
            THEN << LogCall("onError",
                            [error |-> IF Truthy(report.longrepr) THEN report.longrepr
                                       ELSE None]) >>
            ELSE << >>
    ELSE << >>

pytest_runtest_makereport(item, call) ==
    IF call.excinfo.present
    THEN << LogCall("onStepEnd",
                    [step |-> [title |-> call.when, duration |-> call.duration,
                               error |-> call.excinfo.value]]) >>
    ELSE << >>

\* the runner calls a hook of the plugin: calls are the log_event calls it makes
StartHook(f, hook, input, calls) ==
    /\ pc[f] = "idle"
    /\ cur' = [cur EXCEPT ![f] = [NoOp EXCEPT !.id = nops + 1, !.kind = "hook",
                                              !.hook = hook, !.input = input]]
    /\ nops' = nops + 1
    /\ todo' = [todo EXCEPT ![f] = calls]
    /\ pc' = [pc EXCEPT ![f] = "hook"]

\* the hook makes its next log_event call, or returns
HookStep(f) ==
    /\ pc[f] = "hook"
    /\ IF todo[f] # <<>>
       THEN /\ CallLog(f, Head(todo[f]), "hook")
            /\ todo' = [todo EXCEPT ![f] = Tail(@)]
            /\ UNCHANGED cur
       ELSE /\ cur' = [cur EXCEPT ![f].done = TRUE]
            /\ pc' = [pc EXCEPT ![f] = "idle"]
            /\ UNCHANGED <<log, logCalls, todo, inst>>
    /\ UNCHANGED <<env, patched, attr, events, output, clock, frames, runner, origin,
                   nops, ncalls, repatched, titleIn, titleOut, inst>>

----------------------------------------------------------------------------
(* The test runner: pytest's hook protocol for a session of one test item *)

NodeId == "test_evals.py::test_should_display_page_title"
Location == <<"test_evals.py", 6, "test_should_display_page_title">>
Item == [nodeid |-> NodeId, location |-> Location]
Session(failed) ==
    [rootdir |-> "/repo/py", args |-> <<"tests">>, testsfailed |-> failed,
     testscollected |-> 1]

NoExcInfo == [present |-> FALSE, value |-> ""]
ExcInfo(text) == [present |-> TRUE, value |-> text]

\* how a phase of the test can end: the outcome pytest reports, the excinfo of
\* the CallInfo and the longrepr of the TestReport
PhaseResults(when) ==
    { [outcome |-> "passed", excinfo |-> NoExcInfo, longrepr |-> None],
      [outcome |-> "failed", excinfo |-> ExcInfo("assert 1 == 2"),
       longrepr |-> "E assert 1 == 2"] }
    \cup IF when = "call"
         THEN { [outcome |-> "failed", excinfo |-> ExcInfo("boom"), longrepr |-> ""] }
         ELSE {}
    \cup IF when # "teardown"
         THEN { [outcome |-> "skipped", excinfo |-> ExcInfo("not today"),
                 longrepr |-> "Skipped: not today"] }
         ELSE {}

CallInfo(when, res) == [when |-> when, excinfo |-> res.excinfo, duration |-> 1]
TestReport(when, res) ==
    [nodeid |-> NodeId, when |-> when, outcome |-> res.outcome,
     failed |-> (res.outcome = "failed"), duration |-> 1, longrepr |-> res.longrepr]

NoResult == [outcome |-> "", excinfo |-> NoExcInfo, longrepr |-> None]

\* pytest_configure: patch_playwright()
Configure ==
    /\ runner.stage = "configure"
    /\ pc["main"] = "idle"
    /\ attr' = patch_playwright(attr, env, patched)[1]
    /\ patched' = patch_playwright(attr, env, patched)[2]
    /\ runner' = [runner EXCEPT !.stage = "sessionstart"]
    /\ UNCHANGED <<env, events, output, clock, pc, frames, cur, log, todo, origin,
                   logCalls, nops, ncalls, repatched, titleIn, titleOut, inst>>

SessionStart ==
    /\ runner.stage = "sessionstart"
    /\ StartHook("main", "pytest_sessionstart", Session(0), pytest_sessionstart(Session(0)))
    /\ runner' = [runner EXCEPT !.stage = "logstart"]
    /\ UNCHANGED <<env, patched, attr, events, output, clock, frames, log, origin,
                   logCalls, ncalls, repatched, titleIn, titleOut, inst>>

LogStart ==
    /\ runner.stage = "logstart"
    /\ StartHook("main", "pytest_runtest_logstart", Item,
                 pytest_runtest_logstart(NodeId, Location))
    /\ runner' = [runner EXCEPT !.stage = "phase", !.when = "setup"]
    /\ UNCHANGED <<env, patched, attr, events, output, clock, frames, log, origin,
                   logCalls, ncalls, repatched, titleIn, titleOut, inst>>

\* a phase of the test ends and pytest builds its report
MakeReport(res) ==
    /\ runner.stage = "phase"
    /\ StartHook("main", "pytest_runtest_makereport", CallInfo(runner.when, res),
                 pytest_runtest_makereport(Item, CallInfo(runner.when, res)))
    /\ runner' = [runner EXCEPT !.stage = "report", !.result = res]
    /\ UNCHANGED <<env, patched, attr, events, output, clock, frames, log, origin,
                   logCalls, ncalls, repatched, titleIn, titleOut, inst>>

\* pytest logs the report of the phase and moves on: call after a setup that
\* passed, teardown otherwise, the end of the session after teardown
LogReport ==
    /\ runner.stage = "report"
    /\ StartHook("main", "pytest_runtest_logreport", TestReport(runner.when, runner.result),
                 pytest_runtest_logreport(TestReport(runner.when, runner.result)))
    /\ runner' =
         [stage |-> IF runner.when = "teardown" THEN "sessionfinish" ELSE "phase",
          when |-> IF runner.when = "setup" /\ runner.result.outcome = "passed"
                   THEN "call" ELSE "teardown",
          result |-> NoResult,
          failed |-> IF runner.result.outcome = "failed" THEN runner.failed + 1
                     ELSE runner.failed]
    /\ UNCHANGED <<env, patched, attr, events, output, clock, frames, log, origin,
                   logCalls, ncalls, repatched, titleIn, titleOut, inst>>

SessionFinish ==
    /\ runner.stage = "sessionfinish"
    /\ StartHook("main", "pytest_sessionfinish",
                 [session |-> Session(runner.failed),
                  exitstatus |-> IF runner.failed = 0 THEN 0 ELSE 1],
                 pytest_sessionfinish(Session(runner.failed),
                                      IF runner.failed = 0 THEN 0 ELSE 1))
    /\ runner' = [runner EXCEPT !.stage = "end"]
    /\ UNCHANGED <<env, patched, attr, events, output, clock, frames, log, origin,
                   logCalls, ncalls, repatched, titleIn, titleOut, inst>>

----------------------------------------------------------------------------
(* The test code: calls of patched operations, and further patch calls *)

PageObj == [type |-> "Page", text |-> "<Page url='about:blank'>"]
LocatorObj == [type |-> "Locator", text |-> "<Locator selector='text=Table Demo'>"]
ExpectObj ==
    [type |-> "LocatorAssertions", text |-> "<LocatorAssertions>",
     impl |-> [a \in {"_actual_locator"} |-> LocatorObj]]

ClickSite ==
    [cls |-> <<"sync", "Page">>, name |-> "click",
     args |-> [pos |-> <<PageObj, StrV("#submit")>>, kw |-> <<>>]]
\* page.select_option("#color", "blue"): the value passed positionally
SelectSite ==
    [cls |-> <<"sync", "Page">>, name |-> "select_option",
     args |-> [pos |-> <<PageObj, StrV("#color"), StrV("blue")>>, kw |-> <<>>]]
ExpectSite ==
    [cls |-> <<"async", "LocatorAssertions">>, name |-> "to_have_text",
     args |-> [pos |-> <<ExpectObj, StrV("Table Demo")>>,
               kw |-> <<[name |-> "timeout", value |-> IntV(5000)]>>]]

Sites == {ClickSite, SelectSite, ExpectSite}
ConcSites == {ClickSite}

\* the test body (or a fixture) calls a patched operation
TestCall(site) ==
    /\ runner.stage = "phase"
    /\ ncalls < MaxCalls
    /\ Invoke("main", site)

\* patch_playwright() is called again, by anyone, at any point of the session
PatchPlaywrightAgain ==
    /\ pc["main"] = "idle"
    /\ runner.stage # "end"
    /\ attr' = patch_playwright(attr, env, patched)[1]
    /\ patched' = patch_playwright(attr, env, patched)[2]
    /\ repatched' = TRUE
    /\ UNCHANGED <<env, events, output, clock, pc, frames, cur, log, todo, runner,
                   origin, logCalls, nops, ncalls, titleIn, titleOut, inst>>

\* a per-type patch function is called directly on a class of the library
PatchClassAgain(cls) ==
    /\ pc["main"] = "idle"
    /\ runner.stage # "end"
    /\ TypeOf(cls) \in env.types[VariantOf(cls)]
    /\ attr' = CASE TypeOf(cls) = "Page" ->
                      patch_page_class(attr, cls, VariantOf(cls) = "async")
                 [] TypeOf(cls) = "Locator" ->
                      patch_locator_class(attr, cls, VariantOf(cls) = "async")
                 [] TypeOf(cls) = "LocatorAssertions" ->
                      patch_assertions_class(attr, cls, VariantOf(cls) = "async")
    /\ repatched' = TRUE
    /\ UNCHANGED <<env, patched, events, output, clock, pc, frames, cur, log, todo,
                   runner, origin, logCalls, nops, ncalls, titleIn, titleOut, inst>>

----------------------------------------------------------------------------
(* Spec: one pytest session, run by the main flow *)

NoTitleIn == [type |-> "", name |-> "", args |-> NoArgs]
NoTitleOut == [ok |-> FALSE, title |-> "", exc |-> NoExc]

InitCommon ==
    /\ events = <<>>
    /\ output = <<>>
    /\ clock = 1
    /\ pc = [f \in Flows |-> "idle"]
    /\ frames = [f \in Flows |-> <<>>]
    /\ cur = [f \in Flows |-> NoOp]
    /\ log = [f \in Flows |-> NoLog]
    /\ todo = [f \in Flows |-> <<>>]
    /\ origin = <<>>
    /\ logCalls = <<>>
    /\ nops = 0
    /\ ncalls = 0
    /\ repatched = FALSE
    /\ inst = [f \in Flows |-> NoInst]

Init ==
    /\ env \in {BothApisEnv, SyncOnlyEnv}
    /\ patched = FALSE
    /\ attr = InitAttr(env)
    /\ runner = [stage |-> "configure", when |-> "", result |-> NoResult, failed |-> 0]
    /\ titleIn = NoTitleIn
    /\ titleOut = NoTitleOut
    /\ InitCommon

Next ==
    \/ Configure
    \/ SessionStart
    \/ LogStart
    \/ \E site \in Sites : TestCall(site)
    \/ \E res \in PhaseResults(runner.when) : MakeReport(res)
    \/ LogReport
    \/ SessionFinish
    \/ PatchPlaywrightAgain
    \/ \E cls \in Classes : PatchClassAgain(cls)
    \/ WrapperEnter("main")
    \/ \E out \in Outcomes(cur["main"].cls) : CallMethod("main", out)
    \/ WrapperExit("main")
    \/ Return("main")
    \/ HookStep("main")
    \/ LogStamp("main")
    \/ LogAppend("main")
    \/ LogWrite("main")
    \/ LogEnd("main")

Spec == Init /\ [][Next]_vars

\* the session under a runner that goes on: pytest runs its protocol to the
\* end of the session and every call it makes returns
SpecLive == Init /\ [][Next]_vars /\ WF_vars(Next)

----------------------------------------------------------------------------
(* SpecConc: two flows of one process call patched operations concurrently, *)
(* after the installer has run                                             *)

InitConc ==
    /\ env = BothApisEnv
    /\ patched = TRUE
    /\ attr = patch_playwright(InitAttr(BothApisEnv), BothApisEnv, FALSE)[1]
    /\ runner = [stage |-> "phase", when |-> "call", result |-> NoResult, failed |-> 0]
    /\ titleIn = NoTitleIn
    /\ titleOut = NoTitleOut
    /\ InitCommon

\* in the concurrent runs the main flow's operations return and the
\* worker's operation raises an Exception
ConcOutcomes(f) ==
    {out \in Outcomes(<<"sync", "Page">>) :
        IF f = "worker" THEN out.exc.isException ELSE out.kind = "return"}

\* the worker flow makes one call, the main flow the others
ConcCall(f, site) ==
    /\ ncalls < MaxConcCalls
    /\ f = "worker" => cur[f].id = 0
    /\ Invoke(f, site)

NextConc ==
    \E f \in Flows :
        \/ \E site \in ConcSites : ConcCall(f, site)
        \/ WrapperEnter(f)
        \/ \E out \in ConcOutcomes(f) : CallMethod(f, out)
        \/ WrapperExit(f)
        \/ Return(f)
        \/ LogStamp(f)
        \/ LogAppend(f)
        \/ LogWrite(f)
        \/ LogEnd(f)

SpecConc == InitConc /\ [][NextConc]_vars

----------------------------------------------------------------------------
(* SpecTitle: a title rule applied to an argument list *)

ArgValues == {StrV("#submit"), IntV(3)}

RECURSIVE ValLists(_)
ValLists(n) ==
    IF n = 0 THEN {<<>>}
    ELSE ValLists(n - 1)
         \cup {Append(l, v) : l \in {m \in ValLists(n - 1) : Len(m) = n - 1},
                              v \in ArgValues}

KwLists ==
    { <<>>,
      <<[name |-> "selector", value |-> StrV("#submit")]>>,
      <<[name |-> "timeout", value |-> IntV(5000)]>> }

\* the instances a title rule can be handed as self
SelfObjects(type) ==
    CASE type = "Page" -> {PageObj}
      [] type = "Locator" -> {LocatorObj}
      [] type = "LocatorAssertions" ->
           { ExpectObj,
             [ExpectObj EXCEPT !.impl = [a \in {} |-> NoneV]],
             [ExpectObj EXCEPT !.impl =
                 [a \in {"_actual_locator", "actual"} |->
                     IF a = "actual" THEN LocatorObj ELSE NoneV]] }

TitleInputs ==
    UNION {{[type |-> type, name |-> name,
             args |-> [pos |-> <<self>> \o vals, kw |-> kw]] :
               name \in Names(type), self \in SelfObjects(type),
               vals \in ValLists(MaxTitleArgs), kw \in KwLists} : type \in Types}

InitTitle ==
    /\ env = NoLibEnv
    /\ patched = FALSE
    /\ attr = InitAttr(NoLibEnv)
    /\ runner = [stage |-> "end", when |-> "", result |-> NoResult, failed |-> 0]
    /\ titleIn \in TitleInputs
    /\ titleOut = NoTitleOut
    /\ InitCommon

\* title = title_fn(*args, **kwargs)
EvalTitle ==
    /\ titleIn # NoTitleIn
    /\ titleOut = NoTitleOut
    /\ titleOut' = TitleFn(EntryOf(titleIn.type, titleIn.name).rule, titleIn.args)
    /\ UNCHANGED <<env, patched, attr, events, output, clock, pc, frames, cur, log,
                   todo, runner, origin, logCalls, nops, ncalls, repatched, titleIn, inst>>

NextTitle == EvalTitle

SpecTitle == InitTitle /\ [][NextTitle]_vars

----------------------------------------------------------------------------
(* patch_playwright step by step: the reads and writes of the class        *)
(* attributes and of _patched are separate steps, so that the runs of      *)
(* several flows interleave                                                *)

Library == "playwright"
\* the order of the import statements in each try block
ImportOrder == <<"Page", "Locator", "LocatorAssertions">>

ModuleNotFoundError(v) ==
    [id |-> "i0", type |-> "ModuleNotFoundError",
     msg |-> "No module named '" \o Library \o "'",
     isException |-> TRUE, from |-> "import"]
ImportError(name) ==
    [id |-> "i1", type |-> "ImportError",
     msg |-> "cannot import name '" \o name \o "'",
     isException |-> TRUE, from |-> "import"]

\* from playwright.<v>_api._generated import Page, Locator, LocatorAssertions:
\* NoExc when the three names import, else what the first failing import raises
ImportBlock(e, v) ==
    IF e.types[v] = {} THEN ModuleNotFoundError(v)
    ELSE IF Types \subseteq e.types[v] THEN NoExc
    ELSE ImportError(ImportOrder[CHOOSE i \in DOMAIN ImportOrder :
                        /\ ImportOrder[i] \notin e.types[v]
                        /\ \A j \in 1..(i - 1) : ImportOrder[j] \in e.types[v]])

except_ModuleNotFoundError(exc) == exc.type = "ModuleNotFoundError"
\* except ImportError: (ModuleNotFoundError is a subclass of ImportError)
except_ImportError(exc) == exc.type \in {"ImportError", "ModuleNotFoundError"}

RECURSIVE Flatten(_)
Flatten(seqs) == IF seqs = <<>> THEN <<>> ELSE Head(seqs) \o Flatten(Tail(seqs))

\* the names a patch function walks, in the order of its loops
NamesInOrder(type) ==
    Flatten([g \in DOMAIN Groups(type) |->
                [i \in DOMAIN Groups(type)[g].methods |->
                    Groups(type)[g].methods[i].name]])

\* the (class, name) pairs one try block walks: patch_page_class, then
\* patch_locator_class, then patch_assertions_class
WorkOf(v) ==
    Flatten([t \in DOMAIN ImportOrder |->
                [i \in DOMAIN NamesInOrder(ImportOrder[t]) |->
                    [cls |-> <<v, ImportOrder[t]>>,
                     name |-> NamesInOrder(ImportOrder[t])[i]]]])
PatchWork == [async |-> WorkOf("async"), sync |-> WorkOf("sync")]

\* if hasattr(cls, name): the loop passes over the names the class lacks
RECURSIVE Pending(_, _)
Pending(work, a) ==
    IF work = <<>> THEN <<>>
    ELSE IF Head(work).name \in DOMAIN a[Head(work).cls] THEN work
    ELSE Pending(Tail(work), a)

WrapsCurrent(original, current, is_async) ==
    IF is_async THEN wrap_async_method(current) ELSE wrap_sync_method(current)
\* wrap(original, category, title_fn): the wrapper is built around the
\* callable that getattr returned, whatever the attribute holds by now
WrapOriginal(original, current, is_async) ==
    IF is_async THEN wrap_async_method(original) ELSE wrap_sync_method(original)

\* setattr(cls, name, value)
SetAttr(a, cls, name, value) ==
    [c \in DOMAIN a |->
        IF c = cls
        THEN [n \in DOMAIN a[c] |-> IF n = name THEN value ELSE a[c][n]]
        ELSE a[c]]

\* flow f leaves patch_playwright: it returns, or `exc` reaches the caller
InstallerLeaves(f, exc) ==
    /\ cur' = [cur EXCEPT ![f].done = TRUE, ![f].exc = exc,
                          ![f].seen = IF exc = NoExc THEN Returns(None) ELSE Raises(exc)]
    /\ inst' = [inst EXCEPT ![f] = NoInst]
    /\ pc' = [pc EXCEPT ![f] = "idle"]

\* after the try block of variant v: the sync block follows the async one,
\* `_patched = True` follows the sync one
AfterBlock(f, v) ==
    IF v = "async"
    THEN /\ inst' = [inst EXCEPT ![f] = [NoInst EXCEPT !.block = "sync"]]
         /\ pc' = [pc EXCEPT ![f] = "pp_import"]
    ELSE /\ inst' = [inst EXCEPT ![f] = NoInst]
         /\ pc' = [pc EXCEPT ![f] = "pp_done"]

\* a flow calls patch_playwright()
InstallCall(f) ==
    /\ pc[f] = "idle"
    /\ nops - ncalls < MaxInstalls
    /\ cur' = [cur EXCEPT ![f] = [NoOp EXCEPT !.id = nops + 1, !.kind = "install"]]
    /\ nops' = nops + 1
    /\ pc' = [pc EXCEPT ![f] = "pp_check"]
    /\ UNCHANGED <<env, patched, attr, events, output, clock, frames, log, todo,
                   runner, origin, logCalls, ncalls, repatched, titleIn, titleOut, inst>>

\* if _patched: return
PPCheck(f) ==
    /\ pc[f] = "pp_check"
    /\ IF patched
       THEN InstallerLeaves(f, NoExc)
       ELSE /\ inst' = [inst EXCEPT ![f] = [NoInst EXCEPT !.block = "async"]]
            /\ pc' = [pc EXCEPT ![f] = "pp_import"]
            /\ UNCHANGED cur
    /\ UNCHANGED <<env, patched, attr, events, output, clock, frames, log, todo,
                   runner, origin, logCalls, nops, ncalls, repatched, titleIn, titleOut>>

\* try: the three imports of the block ... except ImportError: pass
PPImport(f) ==
    /\ pc[f] = "pp_import"
    /\ LET v == inst[f].block
           raised == ImportBlock(env, v)
       IN IF raised = NoExc
          THEN /\ inst' = [inst EXCEPT ![f].work = PatchWork[v]]
               /\ pc' = [pc EXCEPT ![f] = "pp_read"]
               /\ UNCHANGED cur
          ELSE IF except_ImportError(raised)
          THEN AfterBlock(f, v) /\ UNCHANGED cur
          ELSE InstallerLeaves(f, raised)
    /\ UNCHANGED <<env, patched, attr, events, output, clock, frames, log, todo,
                   runner, origin, logCalls, nops, ncalls, repatched, titleIn, titleOut>>

\* the loop head of a patch function: hasattr, original = getattr(cls, name),
\* is_wrapped(original)
PPRead(f) ==
    /\ pc[f] = "pp_read"
    /\ LET work == Pending(inst[f].work, attr)
       IN IF work = <<>>
          THEN AfterBlock(f, inst[f].block)
          ELSE LET original == attr[work[1].cls][work[1].name]
               IN IF is_wrapped(original)
                  THEN /\ inst' = [inst EXCEPT ![f].work = Tail(work)]
                       /\ UNCHANGED pc
                  ELSE /\ inst' = [inst EXCEPT ![f].work = work,
                                               ![f].original = original]
                       /\ pc' = [pc EXCEPT ![f] = "pp_write"]
    /\ UNCHANGED <<env, patched, attr, events, output, clock, frames, cur, log, todo,
                   runner, origin, logCalls, nops, ncalls, repatched, titleIn, titleOut>>

\* setattr(cls, name, wrap(original, category, title_fn)); repatched records
\* that the attribute written over was wrapped by another run in the meantime
PPWrite(f) ==
    /\ pc[f] = "pp_write"
    /\ LET h == inst[f].work[1]
       IN /\ attr' = SetAttr(attr, h.cls, h.name,
                             WrapOriginal(inst[f].original, attr[h.cls][h.name],
                                          VariantOf(h.cls) = "async"))
          /\ repatched' = (repatched \/ is_wrapped(attr[h.cls][h.name]))
    /\ inst' = [inst EXCEPT ![f].work = Tail(@), ![f].original = Original]
    /\ pc' = [pc EXCEPT ![f] = "pp_read"]
    /\ UNCHANGED <<env, patched, events, output, clock, frames, cur, log, todo,
                   runner, origin, logCalls, nops, ncalls, titleIn, titleOut>>

\* _patched = True, and the return
PPDone(f) ==
    /\ pc[f] = "pp_done"
    /\ patched' = TRUE
    /\ InstallerLeaves(f, NoExc)
    /\ UNCHANGED <<env, attr, events, output, clock, frames, log, todo,
                   runner, origin, logCalls, nops, ncalls, repatched, titleIn, titleOut>>

----------------------------------------------------------------------------
(* SpecInstall: the flows of one process run the installer, in environments *)
(* that lack the library, one API or one target type, and call operations  *)

\* the library without its LocatorAssertions type (both APIs)
NoAssertionsEnv ==
    [types |-> [v \in Variants |-> {"Page", "Locator"}], present |-> LibOps]
\* the async API complete, the sync API without its Locator type
SyncLocatorMissingEnv ==
    [types |-> [v \in Variants |-> IF v = "async" THEN Types
                                   ELSE {"Page", "LocatorAssertions"}],
     present |-> LibOps]
InstallEnvs ==
    {BothApisEnv, SyncOnlyEnv, NoLibEnv, NoAssertionsEnv, SyncLocatorMissingEnv}

InitInstall ==
    /\ env \in InstallEnvs
    /\ patched = FALSE
    /\ attr = InitAttr(env)
    /\ runner = [stage |-> "phase", when |-> "call", result |-> NoResult, failed |-> 0]
    /\ titleIn = NoTitleIn
    /\ titleOut = NoTitleOut
    /\ InitCommon

\* test code calls an operation once no installer run is under way
InstallTestCall(site) ==
    /\ ncalls < MaxCalls
    /\ \A f \in Flows : pc[f] = "idle"
    /\ Invoke("main", site)

NextInstall ==
    \/ \E f \in Flows :
        \/ InstallCall(f)
        \/ PPCheck(f)
        \/ PPImport(f)
        \/ PPRead(f)
        \/ PPWrite(f)
        \/ PPDone(f)
    \/ \E site \in Sites : InstallTestCall(site)
    \/ WrapperEnter("main")
    \/ \E out \in Outcomes(cur["main"].cls) : CallMethod("main", out)
    \/ WrapperExit("main")
    \/ Return("main")
    \/ LogStamp("main")
    \/ LogAppend("main")
    \/ LogWrite("main")
    \/ LogEnd("main")

SpecInstall == InitInstall /\ [][NextInstall]_vars

----------------------------------------------------------------------------
(* SpecRecord: a caller hands log_event payloads of its own *)

\* the Python values a caller may put in a payload: JSON-native ones, an
\* object only str() can render, a dict that holds itself, a dict with a
\* tuple as key, an object whose __str__ raises
RecordValues ==
    { StrV("x"), IntV(3), NoneV,
      [type |-> "object", text |-> "<object object at 0x1>"],
      [type |-> "circular_dict", text |-> "{'self': {...}}"],
      [type |-> "tuple_key_dict", text |-> "{(1, 2): 'x'}"],
      [type |-> "str_raises_object", text |-> ""] }

\* reporter.log_event("custom", {"value": v})
RecordCall(f, v) ==
    /\ pc[f] = "idle"
    /\ nops < MaxCalls
    /\ cur' = [cur EXCEPT ![f] = [NoOp EXCEPT !.id = nops + 1, !.kind = "record",
                                              !.input = v]]
    /\ nops' = nops + 1
    /\ CallLog(f, LogCall("custom", [value |-> v]), "record_ret")
    /\ UNCHANGED <<env, patched, attr, events, output, clock, frames, todo, runner,
                   origin, ncalls, repatched, titleIn, titleOut, inst>>

\* log_event returns to the caller
RecordReturn(f) ==
    /\ pc[f] = "record_ret"
    /\ cur' = [cur EXCEPT ![f].done = TRUE, ![f].seen = Returns(None)]
    /\ pc' = [pc EXCEPT ![f] = "idle"]
    /\ UNCHANGED <<env, patched, attr, events, output, clock, frames, log, todo, runner,
                   origin, logCalls, nops, ncalls, repatched, titleIn, titleOut, inst>>

\* what json.dumps raised leaves log_event and reaches the caller
RecordRaised(f) ==
    /\ pc[f] = "log_raised"
    /\ cur[f].kind = "record"
    /\ cur' = [cur EXCEPT ![f].done = TRUE, ![f].seen = Raises(cur[f].exc)]
    /\ log' = [log EXCEPT ![f] = NoLog]
    /\ pc' = [pc EXCEPT ![f] = "idle"]
    /\ UNCHANGED <<env, patched, attr, events, output, clock, frames, todo, runner,
                   origin, logCalls, nops, ncalls, repatched, titleIn, titleOut, inst>>

InitRecord ==
    /\ env = NoLibEnv
    /\ patched = FALSE
    /\ attr = InitAttr(NoLibEnv)
    /\ runner = [stage |-> "phase", when |-> "call", result |-> NoResult, failed |-> 0]
    /\ titleIn = NoTitleIn
    /\ titleOut = NoTitleOut
    /\ InitCommon

NextRecord ==
    \/ \E v \in RecordValues : RecordCall("main", v)
    \/ LogStamp("main")
    \/ LogAppend("main")
    \/ LogWrite("main")
    \/ LogEnd("main")
    \/ RecordReturn("main")
    \/ RecordRaised("main")

SpecRecord == InitRecord /\ [][NextRecord]_vars

----------------------------------------------------------------------------
(* SpecWrap: wrap_sync_method / wrap_async_method applied by hand to the   *)
(* callable a class holds, wrapped or not, and calls through the result    *)

WrapSites == {ClickSite, ExpectSite}

\* setattr(cls, name, wrap_*_method(getattr(cls, name), category, title_fn))
WrapDirect(site) ==
    /\ pc["main"] = "idle"
    /\ site.name \in DOMAIN attr[site.cls]
    /\ attr[site.cls][site.name].depth < MaxDepth
    /\ attr' = SetAttr(attr, site.cls, site.name,
                       IF VariantOf(site.cls) = "async"
                       THEN wrap_async_method(attr[site.cls][site.name])
                       ELSE wrap_sync_method(attr[site.cls][site.name]))
    /\ UNCHANGED <<env, patched, events, output, clock, pc, frames, cur, log, todo,
                   runner, origin, logCalls, nops, ncalls, repatched, titleIn,
                   titleOut, inst>>

WrapTestCall(site) ==
    /\ ncalls < MaxCalls
    /\ Invoke("main", site)

InitWrap ==
    /\ env = BothApisEnv
    /\ patched = FALSE
    /\ attr = InitAttr(BothApisEnv)
    /\ runner = [stage |-> "phase", when |-> "call", result |-> NoResult, failed |-> 0]
    /\ titleIn = NoTitleIn
    /\ titleOut = NoTitleOut
    /\ InitCommon

NextWrap ==
    \/ \E site \in WrapSites : WrapDirect(site)
    \/ \E site \in WrapSites : WrapTestCall(site)
    \/ WrapperEnter("main")
    \/ \E out \in Outcomes(cur["main"].cls) : CallMethod("main", out)
    \/ WrapperExit("main")
    \/ Return("main")
    \/ LogStamp("main")
    \/ LogAppend("main")
    \/ LogWrite("main")
    \/ LogEnd("main")

SpecWrap == InitWrap /\ [][NextWrap]_vars

----------------------------------------------------------------------------
(* What the claims speak of *)

\* the places in the history of the events the operation `id` emitted
EventsOf(id) == {i \in DOMAIN events : origin[i].op = id}
Begins(id) == {i \in EventsOf(id) : events[i].event = "onStepBegin"}
Ends(id) == {i \in EventsOf(id) : events[i].event = "onStepEnd"}
KindsOf(id) == {events[i].event : i \in EventsOf(id)}

\* flow f has returned from a call of a wrapped operation
WrappedCallDone(f) ==
    /\ cur[f].kind = "call"
    /\ cur[f].done
    /\ cur[f].callable.depth >= 1

\* flow f has returned from the hook `hook`
HookDone(f, hook) ==
    /\ cur[f].kind = "hook"
    /\ cur[f].done
    /\ cur[f].hook = hook

\* the operation `id` emitted one StepBegin and then one StepEnd with the
\* StepBegin's title and category, the StepEnd's error being `error`
OnePair(id, error) ==
    /\ Cardinality(Begins(id)) = 1
    /\ Cardinality(Ends(id)) = 1
    /\ \A b \in Begins(id) : \A e \in Ends(id) :
          /\ b < e
          /\ events[e].step.title = events[b].step.title
          /\ events[e].step.category = events[b].step.category
          /\ events[e].step.error = error

\* C1: a call of a wrapped operation whose underlying operation returns
\* normally emits exactly one StepBegin and then exactly one StepEnd with the
\* same title and category and no error, invokes the underlying operation
\* once with the caller's arguments, and hands its result to the caller.
C1_SuccessfulCall ==
    \A f \in Flows :
        (WrappedCallDone(f) /\ cur[f].outcome.kind = "return") =>
            /\ OnePair(cur[f].id, None)
            /\ cur[f].invoked = 1
            /\ cur[f].passed = cur[f].args
            /\ cur[f].seen = Returns(cur[f].outcome.value)

C1_Witness ==
    \E f \in Flows :
        /\ WrappedCallDone(f)
        /\ cur[f].outcome.kind = "return"
        /\ Ends(cur[f].id) # {}

\* C2: a call of a wrapped operation whose underlying operation raises
\* emits exactly one StepBegin and then exactly one matching StepEnd whose
\* error is str() of what was raised, and the caller gets the very object
\* that was raised, once the StepEnd is emitted.
C2_FailingCall ==
    \A f \in Flows :
        (WrappedCallDone(f) /\ cur[f].outcome.kind = "raise") =>
            /\ OnePair(cur[f].id, cur[f].outcome.exc.msg)
            /\ cur[f].invoked = 1
            /\ cur[f].seen = Raises(cur[f].outcome.exc)

\* a run of patch_playwright
InstallerRun == Configure \/ PatchPlaywrightAgain

\* C3: running the installer again changes no class attribute, a callable
\* that is wrapped is never replaced, no callable is ever more than one
\* wrapper deep, and a call of a patched operation emits one StepBegin, never
\* two, however often the installer and the patch functions have run.
C3_InstallIdempotent ==
    /\ [](\A cls \in Classes : \A n \in DOMAIN attr[cls] : attr[cls][n].depth <= 1)
    /\ [](\A f \in Flows :
            WrappedCallDone(f) =>
                /\ Cardinality(Begins(cur[f].id)) <= 1
                /\ cur[f].invoked = 1 => Cardinality(Begins(cur[f].id)) = 1)
    /\ [][/\ (InstallerRun /\ patched) => attr' = attr
          /\ \A cls \in Classes : \A n \in DOMAIN attr[cls] :
                attr[cls][n].marked => attr'[cls][n] = attr[cls][n]]_vars

C3_Witness ==
    /\ patched
    /\ repatched
    /\ WrappedCallDone("main")
    /\ Cardinality(Begins(cur["main"].id)) = 1

\* the place in the output of the text of the history's i-th record
Written(i) == {k \in DOMAIN output : output[k] = JsonDumps(events[i])}

IsStep(i, kind) == events[i].event = kind /\ "category" \in DOMAIN events[i].step

\* C4: of two wrapped operations a flow calls one after the other, the
\* first's StepEnd stands before the second's StepBegin, in the history and
\* on the output channel.
C4_SequentialOrder ==
    \A i, j \in DOMAIN events :
        (/\ origin[i].flow = origin[j].flow
         /\ origin[i].op < origin[j].op
         /\ IsStep(i, "onStepEnd")
         /\ IsStep(j, "onStepBegin")) =>
            /\ i < j
            /\ \A k \in Written(i) : \A l \in Written(j) : k < l

C4_Witness ==
    \E i, j \in DOMAIN events :
        /\ origin[i].flow = origin[j].flow
        /\ origin[i].op < origin[j].op
        /\ IsStep(i, "onStepEnd")
        /\ IsStep(j, "onStepBegin")
        /\ Written(i) # {}
        /\ Written(j) # {}

\* C5: a failure of the reporting path of a wrapped call (here: of the title
\* rule) is swallowed: the underlying operation is still invoked and the
\* caller sees the underlying operation's result or failure.
C5_ReportingFailureSwallowed ==
    \A f \in Flows :
        WrappedCallDone(f) =>
            /\ cur[f].invoked = 1
            /\ cur[f].seen = cur[f].outcome
            /\ cur[f].seen.exc.from # "title_fn"

\* C6: a title rule never raises: for every table operation and every
\* argument list it gives a string.
C6_TitleNeverRaises ==
    titleOut # NoTitleOut => titleOut.ok

\* the events a call of a hook emits, by the hook and what it was given
EventsExpected(hook, input) ==
    CASE hook = "pytest_runtest_logreport" ->
           IF input.when = "call" THEN (IF input.failed THEN 2 ELSE 1) ELSE 0
      [] hook = "pytest_runtest_makereport" ->
           IF input.excinfo.present THEN 1 ELSE 0
      [] OTHER -> 1

\* C7 as claimed: every call of a hook emits exactly one event.
C7_OneEventPerHandlerCall ==
    \A f \in Flows :
        (cur[f].kind = "hook" /\ cur[f].done) => Cardinality(EventsOf(cur[f].id)) = 1

\* C7 as amended: a call of the run-start, run-end or test-start hook emits
\* exactly one event; a per-phase report emits one event (onTestEnd) for a
\* call phase that did not fail, two (onTestEnd, onError) for a call phase
\* that failed and none for setup and teardown; report creation emits one
\* event when the phase raised and none otherwise.
C7_EventsPerHandlerCall ==
    \A f \in Flows :
        (cur[f].kind = "hook" /\ cur[f].done) =>
            Cardinality(EventsOf(cur[f].id)) = EventsExpected(cur[f].hook, cur[f].input)

C7_Witness ==
    /\ HookDone("main", "pytest_runtest_logreport")
    /\ cur["main"].input.when = "call"
    /\ cur["main"].input.failed
    /\ Cardinality(EventsOf(cur["main"].id)) = 2

\* the error an onError event carries for the report
ErrorText(report) == IF Truthy(report.longrepr) THEN report.longrepr ELSE None

InLogEvent(f) == pc[f] \in {"log_stamp", "log_append", "log_write", "log_end"}

\* C9: with one flow calling log_event, the history holds one record per
\* call, in the order of the calls, each made of the call's event and data;
\* the output channel holds the text of each record followed by its line end,
\* in the same order; between two calls both hold as many records as calls
\* were made.
C9_OneRecordPerCall ==
    /\ Len(events) <= Len(logCalls)
    /\ Len(output) <= 2 * Len(events)
    /\ \A i \in DOMAIN events :
          /\ events[i].event = logCalls[i].event
          /\ DOMAIN events[i] = {"event", "timestamp"} \cup DOMAIN logCalls[i].data
          /\ \A k \in DOMAIN logCalls[i].data : events[i][k] = logCalls[i].data[k]
    /\ \A k \in DOMAIN output :
          output[k] = IF k % 2 = 1 THEN JsonDumps(events[(k + 1) \div 2]) ELSE Newline
    /\ (\A f \in Flows : ~InLogEvent(f)) =>
          /\ Len(events) = Len(logCalls)
          /\ Len(output) = 2 * Len(events)

C9_Witness ==
    /\ \A f \in Flows : ~InLogEvent(f)
    /\ [i \in DOMAIN events |-> events[i].event] =
          <<"onBegin", "onTestBegin", "onStepBegin", "onStepEnd", "onTestEnd", "onEnd">>
    /\ Len(output) = 12

\* C10: timestamps never decrease along the history nor along the output
\* channel, also when several flows call log_event concurrently.
C10_TimestampsMonotone ==
    /\ \A i, j \in DOMAIN events :
          i < j => events[i].timestamp <= events[j].timestamp
    /\ \A k, l \in DOMAIN output :
          (k < l /\ output[k].chunk = "json" /\ output[l].chunk = "json") =>
              output[k].rec.timestamp <= output[l].rec.timestamp

\* flow f has left a run of patch_playwright
InstallerDone(f) == cur[f].kind = "install" /\ cur[f].done

\* C11: the installer never raises, whatever the environment lacks: every
\* run returns normally; without the library nothing is wrapped; a target
\* type or an operation the environment lacks is passed over, no attribute
\* is created for it.
C11_InstallerNeverRaises ==
    /\ \A f \in Flows :
          InstallerDone(f) => cur[f].exc = NoExc /\ cur[f].seen = Returns(None)
    /\ \A cls \in Classes :
          /\ DOMAIN attr[cls] = DOMAIN InitAttr(env)[cls]
          /\ ImportBlock(env, VariantOf(cls)) # NoExc =>
                \A n \in DOMAIN attr[cls] : attr[cls][n] = Original

C11_Witness ==
    /\ env = SyncLocatorMissingEnv
    /\ InstallerDone("main")
    /\ patched
    /\ attr[<<"async", "Page">>]["click"].depth = 1
    /\ attr[<<"sync", "Page">>]["click"].depth = 0

\* flow f has left a log_event call of its own
RecordDone(f) == cur[f].kind = "record" /\ cur[f].done

\* C12: log_event never fails because of what the payload holds: for every
\* payload the call returns normally, the record is in the history, and a
\* text of it (str() of what the wire format cannot write) is on the output.
C12_RecordNeverFails ==
    \A f \in Flows :
        RecordDone(f) =>
            /\ cur[f].seen = Returns(None)
            /\ \E i \in EventsOf(cur[f].id) :
                  /\ events[i].value = cur[f].input
                  /\ \E k \in DOMAIN output :
                        /\ output[k] = JsonDumps(events[i])
                        /\ k + 1 \in DOMAIN output
                        /\ output[k + 1] = Newline

\* C13: when several flows call log_event concurrently the writes are
\* serialized: on the output every record's text is followed by its own line
\* end, every line end follows a text, and the records stand in the order
\* they have in the history.
C13_WritesSerialized ==
    /\ \A k \in DOMAIN output :
          /\ (output[k].chunk = "json" /\ k + 1 \in DOMAIN output) =>
                output[k + 1] = Newline
          /\ output[k] = Newline => (k > 1 /\ output[k - 1].chunk = "json")
    /\ \A k, l \in DOMAIN output : \A i, j \in DOMAIN events :
          (/\ k < l
           /\ output[k] = JsonDumps(events[i])
           /\ output[l] = JsonDumps(events[j])) => i < j

\* C14: wrap applied to a callable that is marked as wrapped returns it
\* unchanged: however often wrap is applied, a callable is one wrapper deep,
\* and a call through it emits one StepBegin/StepEnd pair.
C14_WrapIdempotent ==
    /\ \A cls \in Classes : \A n \in DOMAIN attr[cls] : attr[cls][n].depth <= 1
    /\ \A f \in Flows :
          (WrappedCallDone(f) /\ cur[f].invoked = 1) =>
              /\ Cardinality(Begins(cur[f].id)) = 1
              /\ Cardinality(Ends(cur[f].id)) = 1

\* C15: an underlying operation that is cancelled or times out while the
\* wrapped call is in flight takes the failure path: the StepEnd carries the
\* description of the cancellation or timeout, not None, and the caller gets
\* the cancellation or timeout itself.
C15_CancellationAsFailure ==
    \A f \in Flows :
        (/\ WrappedCallDone(f)
         /\ cur[f].outcome.kind = "raise"
         /\ cur[f].outcome.exc.type \in {"CancelledError", "TimeoutError"}) =>
            /\ Ends(cur[f].id) # {}
            /\ \A e \in Ends(cur[f].id) :
                  /\ events[e].step.error # None
                  /\ events[e].step.error = cur[f].outcome.exc.msg
            /\ cur[f].seen = Raises(cur[f].outcome.exc)

\* the StepBegin and the StepEnd at i and j belong to one call
SameStep(i, j) ==
    /\ origin[i].op = origin[j].op
    /\ IsStep(i, "onStepBegin")
    /\ IsStep(j, "onStepEnd")

\* C16 as claimed: a step's StepBegin precedes its StepEnd and no event of
\* any other step stands between them, whichever flows call.
C16_NoEventBetweenPair ==
    \A b, e \in DOMAIN events :
        SameStep(b, e) =>
            /\ b < e
            /\ \A k \in (b + 1)..(e - 1) : origin[k].op = origin[b].op

\* C16 as amended: every StepEnd of a call follows the StepBegin of that
\* call, and no event of another step of the same flow stands between them;
\* events of the steps of other flows may stand between them.
C16_NoEventOfOwnFlowBetweenPair ==
    /\ \A e \in DOMAIN events :
          IsStep(e, "onStepEnd") => \E b \in 1..(e - 1) : SameStep(b, e)
    /\ \A b, e \in DOMAIN events :
          SameStep(b, e) =>
              /\ b < e
              /\ \A k \in (b + 1)..(e - 1) : origin[k].flow # origin[b].flow

C16_Witness ==
    \E b, e \in DOMAIN events :
        /\ SameStep(b, e)
        /\ \E k \in (b + 1)..(e - 1) : origin[k].flow # origin[b].flow

\* the try block of the class's API found its three imports
Importable(cls) == ImportBlock(env, VariantOf(cls)) = NoExc

\* C17: when two flows run the installer concurrently no operation is ever
\* more than one wrapper deep; once the installer has set _patched every
\* table operation of a class whose imports succeeded is exactly one wrapper
\* of its API's kind around the original; a call emits exactly one StepBegin.
C17_NoDoubleWrapInRace ==
    /\ \A cls \in Classes : \A n \in DOMAIN attr[cls] :
          /\ attr[cls][n].depth <= 1
          /\ (patched /\ Importable(cls)) =>
                attr[cls][n] = [depth |-> 1, marked |-> TRUE, conv |-> VariantOf(cls)]
    /\ \A f \in Flows :
          (WrappedCallDone(f) /\ cur[f].invoked = 1) =>
              Cardinality(Begins(cur[f].id)) = 1

C17_Witness ==
    /\ repatched
    /\ patched
    /\ \A f \in Flows : inst[f] = NoInst
    /\ cur["worker"].kind = "install"
    /\ WrappedCallDone("main")
    /\ Cardinality(Begins(cur["main"].id)) = 1

\* C18: after the installer's first run every table operation present on an
\* available target type is wrapped, whatever else the environment lacks:
\* neither the other API nor another target type of the same API.
C18_PresentOperationsWrapped ==
    patched =>
        \A cls \in Classes :
            TypeOf(cls) \in env.types[VariantOf(cls)] =>
                \A n \in DOMAIN attr[cls] : attr[cls][n].depth = 1

TestBegun(id) ==
    \E i \in DOMAIN events : events[i].event = "onTestBegin" /\ events[i].test.id = id
SessionOver == runner.stage = "end" /\ pc["main"] = "idle"

\* the stream holds the whole of the test `id`: its onTestEnd after its
\* onTestBegin, an onError after the onTestEnd exactly when the test failed,
\* and every step event between the onTestBegin and the onTestEnd
TestClosed(id) ==
    \E b, e \in DOMAIN events :
        /\ b < e
        /\ events[b].event = "onTestBegin" /\ events[b].test.id = id
        /\ events[e].event = "onTestEnd" /\ events[e].test.id = id
        /\ (\E k \in (e + 1)..Len(events) : events[k].event = "onError")
              <=> runner.failed > 0
        /\ \A k \in DOMAIN events :
              events[k].event \in {"onStepBegin", "onStepEnd"} => (b < k /\ k < e)

\* C19: under a runner that follows its hook protocol every onTestBegin is
\* eventually followed by the onTestEnd of its test, followed by an onError
\* exactly when the test failed, with the step events of the test between
\* the onTestBegin and the onTestEnd.
C19_TestBeginLeadsToTestEnd ==
    TestBegun(NodeId) ~> (SessionOver /\ TestClosed(NodeId))

Categories == {"navigation", "action", "wait", "assertion"}

\* the records named `kind` among the first n records of the history
RecordsUpTo(n, kind) == {i \in 1..n : events[i].event = kind}

\* C20: every onStepEnd closes a step that was opened: up to any record the
\* history holds no more onStepEnd than onStepBegin, and each onStepEnd has
\* one of the four categories and the title of an earlier onStepBegin that
\* no earlier onStepEnd has closed; also when a phase of the test fails and
\* pytest_runtest_makereport runs.
C20_StepEndClosesOpenStep ==
    \A e \in DOMAIN events :
        events[e].event = "onStepEnd" =>
            /\ Cardinality(RecordsUpTo(e, "onStepEnd"))
                  <= Cardinality(RecordsUpTo(e, "onStepBegin"))
            /\ "category" \in DOMAIN events[e].step
            /\ events[e].step.category \in Categories
            /\ Cardinality({i \in RecordsUpTo(e - 1, "onStepBegin") :
                               events[i].step.title = events[e].step.title})
                  > Cardinality({i \in RecordsUpTo(e - 1, "onStepEnd") :
                                    events[i].step.title = events[e].step.title})

====
